---- MODULE Spec2Model ----
(***************************************************************************)
(* The event loop as src/unnamed/part_002 exercises it (demos 1-5) when   *)
(* the file runs as an ES module: synchronous code, the nextTick          *)
(* ("Priority") queue, the microtask queue, and the Timers / Poll /       *)
(* Check phases, with wall-clock timers kept in one list per delay, one    *)
(* timer of the loop that wakes the Timers phase, and I/O that completes   *)
(* when the host says so.  Cancellation, the sequence counter and the      *)
(* Error Sink have no counterpart in the source and follow the design      *)
(* document.                                                               *)
(***************************************************************************)
EXTENDS Integers, Sequences, FiniteSets, TLC

\* ---------------------------------------------------------------- bounds
MaxTasks == 3      \* scheduling calls per run, callbacks included
MaxDelay == 3      \* largest timer delay, in milliseconds
MaxCancels == 2    \* cancel calls per run
MaxFailures == 1   \* payloads that raise per run
MaxWait == 3       \* milliseconds that executing code lets pass per run

Kinds == {"Priority", "Microtask", "Timer", "Poll", "Check"}

MacroKinds == {"Timer", "Poll", "Check"}

\* The delays handed to setTimeout: a negative one, the demos' 0, and two
\* longer ones, the longest in the place of the 50 ms of the clean-up timer:
\* a chain of 0 ms Timers set one by the other's callback runs while it waits.
Delays == {-1, 0, 2, MaxDelay}

\* n calls of every kind but those of the set none
AllBut(none, n) == [k \in Kinds |-> IF k \in none THEN 0 ELSE n]

\* What the harness may do in one run: the scheduling calls in all, the
\* cancels, the payloads that raise, the time that passes while code
\* executes, the calls that callbacks make, the calls of each kind and the
\* delays.  The first budget is that of demos 1 and 4: only the main script
\* schedules, with one more call, no read and no delay but 0.  In the second
\* and the third, callbacks schedule too: with reads and the delay 0, or
\* without reads and with the longer delays.  In the fourth, payloads raise,
\* delays are negative and Tasks are cancelled; in the fifth, there are more
\* cancels and fewer calls.  The sixth is demo 3 (a Timer, a read, Check
\* Tasks) with one more call, one of them made by a callback; the seventh
\* is demo 5 (Timers set by Timer callbacks) with a read in flight; the
\* eighth is demo 1's chain of promise reactions, one reaction longer, in a
\* run in which the main script or a reaction throws.
Budgets ==
  {[calls |-> MaxTasks + 1, cancels |-> 0, fails |-> 0, waits |-> MaxWait,
    nested |-> 0, kinds |-> AllBut({"Poll"}, MaxTasks + 1), delays |-> {0}],
   [calls |-> MaxTasks, cancels |-> 0, fails |-> 0, waits |-> MaxWait,
    nested |-> MaxTasks, kinds |-> AllBut({}, MaxTasks), delays |-> {0}],
   [calls |-> MaxTasks, cancels |-> 0, fails |-> 0, waits |-> MaxWait,
    nested |-> MaxTasks, kinds |-> AllBut({"Poll"}, MaxTasks),
    delays |-> Delays \ {-1}],
   [calls |-> MaxTasks - 1, cancels |-> MaxCancels - 1, fails |-> MaxFailures,
    waits |-> MaxWait, nested |-> MaxTasks, kinds |-> AllBut({}, MaxTasks),
    delays |-> Delays],
   [calls |-> MaxTasks - 2, cancels |-> MaxCancels, fails |-> 0,
    waits |-> MaxWait, nested |-> MaxTasks, kinds |-> AllBut({}, MaxTasks),
    delays |-> Delays],
   [calls |-> MaxTasks + 1, cancels |-> 0, fails |-> 0, waits |-> MaxWait,
    nested |-> MaxTasks - 2,
    kinds |-> [AllBut(Kinds \ MacroKinds, MaxTasks - 2)
                 EXCEPT !["Check"] = MaxTasks - 1],
    delays |-> {0}],
   [calls |-> MaxTasks + 1, cancels |-> 0, fails |-> 0, waits |-> MaxWait,
    nested |-> MaxTasks - 1,
    kinds |-> [AllBut(Kinds \ {"Timer"}, MaxTasks)
                 EXCEPT !["Poll"] = MaxTasks - 2],
    delays |-> {0}],
   [calls |-> MaxTasks + 1, cancels |-> 0, fails |-> MaxFailures,
    waits |-> MaxWait, nested |-> MaxTasks,
    kinds |-> [AllBut(Kinds \ {"Microtask"}, MaxTasks + 1)
                 EXCEPT !["Priority"] = MaxTasks - 2],
    delays |-> {0}]}

\* ------------------------------------------------------------ vocabulary
MacroPhases == {"TimersPhase", "PollPhase", "CheckPhase"}

Phases ==
  {"Idle", "RunningSync", "DrainingPriority", "DrainingMicrotask",
   "TimersPhase", "PollPhase", "CheckPhase", "Closed", "Crashed"}

VARIABLES
  currentPhase,  \* Loop State: the phase of the driver
  resume,        \* the macrotask phase the drains return to ("Start" before the loop)
  running,       \* id of the Task whose payload is executing, 0 if none
  tasks,         \* every Task created so far, indexed by id (handle)
  priorityQ,     \* FIFO of ids: process.nextTick queue
  microQ,        \* FIFO of ids: Promise / queueMicrotask queue
  timerHeap,     \* set of ids: the Timers that are pending
  timerListQueue,\* the lists of pending Timers, one per delay, oldest list id first
  timerHandle,   \* the clock reading at which the loop's timer fires, 0 while stopped
  nextExpiry,    \* the expiry the runtime has set the loop's timer for, 0 for none
  processing,    \* the Timers phase is working through its lists
  inflight,      \* set of ids: fs.readFile calls whose I/O has not completed
  pollQ,         \* FIFO of ids: I/O completions
  checkQ,        \* FIFO of ids: setImmediate callbacks
  ready,         \* ids popped / snapshotted for the current phase, not yet run
  tick,          \* the clock, in milliseconds, as last read
  now,           \* the clock reading of the latest Timers phase that ran its lists
  log,           \* ExecutionLog: 0 is the synchronous block's entry S
  nextSeq,       \* the global sequence counter
  errorSink,     \* Error Sink: the failure reports, in order
  rejected,      \* a promise was rejected and nothing handles the rejection
  exitHops,      \* promise jobs left before the failed main script ends the process
  exitBehind,    \* microtasks queued ahead of the next of these jobs
  budget,        \* scheduling calls, cancels and failures the harness may still make
  lastCancel     \* the latest cancel call of the executing code: handle, result

vars ==
  <<currentPhase, resume, running, tasks, priorityQ, microQ, timerHeap,
    timerListQueue, timerHandle, nextExpiry, processing, inflight, pollQ,
    checkQ, ready, tick, now, log, nextSeq, errorSink, rejected, exitHops,
    exitBehind, budget, lastCancel>>

\* --------------------------------------------------------------- helpers
Range(s) == {s[i] : i \in 1..Len(s)}

InLog(x) == \E i \in 1..Len(log) : log[i] = x

Pos(x) == CHOOSE i \in 1..Len(log) : log[i] = x

Issued(h) == h \in 1..Len(tasks)

Live(h) == tasks[h].status = "pending" /\ ~tasks[h].cancelled

Max(a, b) == IF a >= b THEN a ELSE b

\* the Tasks that wait in the Poll Queue, the Check Queue or the snapshot of
\* the phase in progress and are not tombstones
Queued == {h \in Range(pollQ) \cup Range(checkQ) \cup Range(ready) : Live(h)}

\* A scheduling call or a cancel can only come from executing code: the
\* synchronous block or the payload that is running.
InCallback == currentPhase = "RunningSync" \/ running # 0

\* ------------------------------------------------------------ scheduling
\* faulty variant: every kind counts its own Tasks
SequenceFor_PerKind(kind) ==
  Cardinality({h \in 1..Len(tasks) : tasks[h].kind = kind}) + 1

\* One counter serves the scheduling calls of all kinds.
SequenceFor(kind) == nextSeq

\* setTimeout takes a delay below 1 ms, a negative one too, as 1 ms.
Clamp(delay) == IF delay < 1 THEN 1 ELSE delay

\* faulty variant: the delay is counted from the start of the run
DeadlineFor_FromStart(t, delay) == Clamp(delay)

\* due time = the clock as read by the setTimeout call + the clamped delay
DeadlineFor(t, delay) == t + Clamp(delay)

\* The clock readings a setTimeout call may get: time has passed since the
\* last reading while the code executed, by an amount that can exceed every
\* delay.
TimesAtCall == tick..(tick + budget.waits)

\* The ways the source queues a microtask: queueMicrotask, or a reaction to a
\* promise (Promise.then, the code after an await).  Which of the two it
\* was shows only when the callback throws.
MicrotaskApis ==
  IF budget.fails > 0 THEN {"queueMicrotask", "then"} ELSE {"then"}

NewTask(kind, delay, t, api) ==
  [kind |-> kind,
   api |-> api,
   sequence |-> SequenceFor(kind),
   delay |-> delay,
   deadline |-> IF kind = "Timer" THEN DeadlineFor(t, delay) ELSE 0,
   schedTick |-> t,
   cancelled |-> FALSE,
   status |-> "pending",
   cancelledIn |-> "never",
   by |-> running,
   bornAt |-> Len(log),
   inOwnPhase |-> kind = "Check" /\ resume = "CheckPhase",
   ahead |-> IF kind \in MacroKinds THEN Queued ELSE {},
   atStart |-> FALSE,
   iters |-> 0]

Create(kind, delay, t, api) ==
  /\ InCallback
  /\ budget.calls > 0
  /\ budget.kinds[kind] > 0
  /\ budget.nested > 0 \/ currentPhase = "RunningSync"
  /\ budget' = [budget EXCEPT !.calls = @ - 1,
                               !.waits = @ - (t - tick),
                               !.nested = IF currentPhase = "RunningSync"
                                          THEN @ ELSE @ - 1,
                               !.kinds[kind] = @ - 1]
  /\ tasks' = Append(tasks, NewTask(kind, delay, t, api))
  /\ nextSeq' = nextSeq + 1
  /\ tick' = t
  /\ UNCHANGED <<currentPhase, resume, running, ready, now, log, errorSink,
                 rejected, exitHops, exitBehind, lastCancel>>

\* A queue takes a new Task at its end.
Enqueue(q, h) == Append(q, h)

SchedulePriority ==
  /\ Create("Priority", 0, tick, "nextTick")
  /\ priorityQ' = Enqueue(priorityQ, Len(tasks) + 1)
  /\ UNCHANGED <<microQ, timerHeap, timerListQueue, timerHandle, nextExpiry, processing, inflight,
                 pollQ, checkQ>>

ScheduleMicrotask(api) ==
  /\ Create("Microtask", 0, tick, api)
  /\ microQ' = Enqueue(microQ, Len(tasks) + 1)
  /\ UNCHANGED <<priorityQ, timerHeap, timerListQueue, timerHandle, nextExpiry, processing, inflight,
                 pollQ, checkQ>>

\* ------------------------------------------------------------ timer lists
\* The pending Timers of one delay, a list in the order of the calls.
Members(H, msecs) == {h \in H : Clamp(tasks[h].delay) = msecs}

\* The first Timer of a list.
Front(S) == CHOOSE h \in S : \A g \in S : tasks[h].sequence <= tasks[g].sequence

HasList(L, msecs) == \E i \in 1..Len(L) : L[i].msecs = msecs

RemoveAt(L, i) == SubSeq(L, 1, i - 1) \o SubSeq(L, i + 1, Len(L))

\* A list whose expiry is set anew gets a new list id: it becomes the newest.
Renewed(L, i, expiry) ==
  Append(RemoveAt(L, i), [msecs |-> L[i].msecs, expiry |-> expiry])

\* The list looked at first: the smallest expiry, the older list on a tie.
Top(L) ==
  CHOOSE i \in 1..Len(L) :
    \A j \in 1..Len(L) :
      \/ L[i].expiry < L[j].expiry
      \/ L[i].expiry = L[j].expiry /\ i <= j

\* setTimeout puts the Timer at the end of the list of its delay; the first
\* Timer of a delay makes the list, which expires when that Timer is due.
ListsAfterInsert(L, delay, t) ==
  IF HasList(L, Clamp(delay)) THEN L
  ELSE Append(L, [msecs |-> Clamp(delay), expiry |-> DeadlineFor(t, delay)])

\* The loop has one timer of its own, which wakes the Timers phase, and the
\* runtime remembers the expiry it has set that timer for.  A new list sets
\* the timer when it expires before the remembered expiry or when there is
\* none: no list was left, or the Timers phase is working through its lists,
\* which it starts by forgetting the expiry.
ArmsTimer(L, delay, t) ==
  /\ ~HasList(L, Clamp(delay))
  /\ nextExpiry = 0 \/ nextExpiry > DeadlineFor(t, delay)

HandleAfterInsert(L, delay, t) ==
  IF ArmsTimer(L, delay, t) THEN DeadlineFor(t, delay) ELSE timerHandle

ExpiryAfterInsert(L, delay, t) ==
  IF ArmsTimer(L, delay, t) THEN DeadlineFor(t, delay) ELSE nextExpiry

\* setTimeout accepts every delay and returns a handle.
ScheduleTimer(delay) ==
  \E t \in TimesAtCall :
    /\ delay \in budget.delays
    /\ Create("Timer", delay, t, "setTimeout")
    /\ timerHeap' = timerHeap \cup {Len(tasks) + 1}
    /\ timerListQueue' = ListsAfterInsert(timerListQueue, delay, t)
    /\ timerHandle' = HandleAfterInsert(timerListQueue, delay, t)
    /\ nextExpiry' = ExpiryAfterInsert(timerListQueue, delay, t)
    /\ UNCHANGED <<priorityQ, microQ, inflight, pollQ, checkQ, processing>>

\* What the Timers phase does with the list of delay msecs when a callback
\* of that list has come back: an empty list is dropped, a list whose first
\* Timer is not due yet gets that Timer's due time as its expiry.
ListsAfterTimeout(L, H, msecs, t) ==
  IF ~HasList(L, msecs) THEN L
  ELSE LET i == CHOOSE k \in 1..Len(L) : L[k].msecs = msecs
           S == Members(H, msecs)
       IN IF S = {} THEN RemoveAt(L, i)
          ELSE IF tasks[Front(S)].deadline > t
          THEN Renewed(L, i, tasks[Front(S)].deadline)
          ELSE L

\* The lists when the Timers phase looks for the next Timer to run at clock
\* reading t: lists that have expired but hold no Timer that is due are
\* dropped or get their new expiry, one after the other.
RECURSIVE ListsAtTurn(_, _, _)
ListsAtTurn(L, H, t) ==
  IF L = <<>> THEN L
  ELSE LET i == Top(L)
           S == Members(H, L[i].msecs)
       IN IF L[i].expiry > t THEN L
          ELSE IF S = {} THEN ListsAtTurn(RemoveAt(L, i), H, t)
          ELSE IF tasks[Front(S)].deadline > t
          THEN ListsAtTurn(Renewed(L, i, tasks[Front(S)].deadline), H, t)
          ELSE L

\* The Timer that a Timers phase with the lists L, the pending Timers H and
\* the clock reading t runs next, 0 when no list has expired: the first
\* Timer of the list looked at first.
NextIn(L, H, t) ==
  LET M == ListsAtTurn(L, H, t)
  IN IF M = <<>> \/ M[Top(M)].expiry > t THEN 0
     ELSE Front(Members(H, M[Top(M)].msecs))

NextTimer == NextIn(timerListQueue, timerHeap, now)

\* When the Timers phase has worked through its lists, the loop's timer is
\* set for the smallest expiry left, and for 1 ms after the latest clock
\* reading t if that expiry is not later; with no list left it stays as it
\* is, h: stopped, unless a list made in the meantime had set it.
HandleAfterTurn(L, t, h) ==
  IF L = <<>> THEN h ELSE Max(L[Top(L)].expiry, t + 1)

\* The expiry the runtime remembers from then on: that of the list looked at
\* first, e when no list is left.
ExpiryAfterTurn(L, e) ==
  IF L = <<>> THEN e ELSE L[Top(L)].expiry

\* fs.readFile returns at once: the read is in flight and its callback is
\* queued by the host when the I/O has completed.
ScheduleIO ==
  /\ Create("Poll", 0, tick, "readFile")
  /\ inflight' = inflight \cup {Len(tasks) + 1}
  /\ UNCHANGED <<priorityQ, microQ, timerHeap, timerListQueue, timerHandle, nextExpiry, processing,
                 pollQ, checkQ>>

\* The host has finished a read: its callback joins the Poll Queue.  Reads
\* complete in any order and at any time while the process lives: while the
\* main script or a callback executes, during a drain, in any phase.  The
\* loop looks at the Poll Queue when it polls, after the Timers phase.
CompleteIO(h) ==
  /\ h \in inflight
  /\ currentPhase # "Crashed"
  /\ inflight' = inflight \ {h}
  /\ pollQ' = Enqueue(pollQ, h)
  /\ tasks' = [tasks EXCEPT ![h].inOwnPhase = (resume = "PollPhase"),
                            ![h].iters = 0]
  /\ UNCHANGED <<currentPhase, resume, running, priorityQ, microQ,
                 timerHeap, timerListQueue, timerHandle, nextExpiry, processing, checkQ, ready, tick,
                 now, log, nextSeq, errorSink, rejected, exitHops, exitBehind, budget, lastCancel>>

ScheduleCheck ==
  /\ Create("Check", 0, tick, "setImmediate")
  /\ checkQ' = Enqueue(checkQ, Len(tasks) + 1)
  /\ UNCHANGED <<priorityQ, microQ, timerHeap, timerListQueue, timerHandle, nextExpiry, processing,
                 inflight, pollQ>>

\* ---------------------------------------------------------- cancellation
\* lastCancel while the executing code has made no cancel call
NoCancel ==
  [handle |-> 0, result |-> FALSE, where |-> "unknown", again |-> FALSE,
   status |-> "unknown"]

Where(h) ==
  IF ~Issued(h) THEN "unknown"
  ELSE IF h \in timerHeap THEN "heap"
  ELSE IF h \in inflight THEN "inflight"
  ELSE IF h \in Range(ready) THEN "ready"
  ELSE IF h \in Range(priorityQ \o microQ \o pollQ \o checkQ) THEN "queue"
  ELSE "none"

\* faulty variant: a Timer cannot be cancelled
CancelResult_TimersUnsupported(h) ==
  Issued(h) /\ tasks[h].status = "pending" /\ tasks[h].kind # "Timer"

\* faulty variant: true for every issued handle, fired or not
CancelResult_AnyIssued(h) == Issued(h)

\* true only for a Task that has not begun executing
CancelResult(h) == Issued(h) /\ tasks[h].status = "pending"

\* faulty variant: a repeated cancel unsets the flag
CancelledAfter_Toggle(h) == ~tasks[h].cancelled

\* the cancelled flag once the call has succeeded: set, never unset
CancelledAfter(h) == TRUE

\* A list that loses its last Timer to a cancel is dropped.
ListsAfterCancel(L, h) ==
  IF h \in timerHeap /\ Members(timerHeap, Clamp(tasks[h].delay)) = {h}
  THEN RemoveAt(L, CHOOSE k \in 1..Len(L) : L[k].msecs = Clamp(tasks[h].delay))
  ELSE L

Cancel(h) ==
  /\ InCallback
  /\ budget.cancels > 0
  /\ budget' = [budget EXCEPT !.cancels = @ - 1]
  /\ lastCancel' =
        [handle |-> h, result |-> CancelResult(h), where |-> Where(h),
         again |-> Issued(h) /\ tasks[h].cancelled,
         status |-> IF Issued(h) THEN tasks[h].status ELSE "unknown"]
  /\ IF CancelResult(h)
     THEN /\ tasks' = [tasks EXCEPT ![h].cancelled = CancelledAfter(h),
                                    ![h].cancelledIn =
                                      IF tasks[h].cancelled THEN @ ELSE Where(h)]
          /\ timerHeap' = timerHeap \ {h}
          /\ timerListQueue' = ListsAfterCancel(timerListQueue, h)
          /\ inflight' = inflight \ {h}
     ELSE UNCHANGED <<tasks, timerHeap, timerListQueue, inflight>>
  /\ UNCHANGED <<currentPhase, resume, running, priorityQ, microQ, pollQ,
                 checkQ, ready, tick, now, log, nextSeq, errorSink, rejected, exitHops, exitBehind,
                 timerHandle, nextExpiry, processing>>

\* ------------------------------------------------------------ loop driver
StartRun ==
  /\ currentPhase = "Idle"
  /\ currentPhase' = "RunningSync"
  /\ log' = Append(log, 0)
  /\ UNCHANGED <<resume, running, tasks, priorityQ, microQ, timerHeap,
                 timerListQueue, timerHandle, nextExpiry, processing, inflight, pollQ, checkQ, ready,
                 tick, now, nextSeq, errorSink, rejected, exitHops, exitBehind, budget, lastCancel>>

\* faulty variant: no drain after a macrotask callback, the phase goes on
AfterReturn_NoDrainAfterMacrotask(kind) ==
  IF kind \in MacroKinds THEN resume
  ELSE IF kind = "Priority" THEN "DrainingPriority" ELSE "DrainingMicrotask"

\* The drain entered when executing code returns.  The main script of an ES
\* module is itself run from a promise job, so the microtask drain goes on
\* when it returns, as after a Microtask, and the nextTick queue is looked
\* at when the microtask queue is empty; after a nextTick callback and after
\* every macrotask callback the nextTick queue is drained first.
AfterReturn(kind) ==
  IF kind \in {"Sync", "Microtask"} THEN "DrainingMicrotask"
  ELSE "DrainingPriority"

ReturnFromSync ==
  /\ currentPhase = "RunningSync"
  /\ currentPhase' = AfterReturn("Sync")
  /\ lastCancel' = NoCancel
  /\ UNCHANGED <<resume, running, tasks, priorityQ, microQ, timerHeap,
                 timerListQueue, timerHandle, nextExpiry, processing, inflight, pollQ, checkQ, ready,
                 tick, now, log, nextSeq, errorSink, rejected, exitHops, exitBehind, budget>>

\* A callback has come back.  After a Timer callback the Timers phase looks
\* at once for the next Timer that is due; when there is none it has worked
\* through its lists and the loop's timer is set again, with the clock as
\* last read, before the drain that follows the callback.
Return ==
  /\ running # 0
  /\ tasks' = [tasks EXCEPT ![running].status = "done"]
  /\ running' = 0
  /\ currentPhase' = AfterReturn(tasks[running].kind)
  /\ IF tasks[running].kind = "Timer"
     THEN LET L == ListsAfterTimeout(timerListQueue, timerHeap,
                                     Clamp(tasks[running].delay), now)
          IN IF NextIn(L, timerHeap, now) # 0
             THEN /\ timerListQueue' = L
                  /\ UNCHANGED <<timerHandle, nextExpiry, processing>>
             ELSE /\ timerListQueue' = ListsAtTurn(L, timerHeap, now)
                  /\ timerHandle' =
                        HandleAfterTurn(ListsAtTurn(L, timerHeap, now), tick,
                                        timerHandle)
                  /\ nextExpiry' =
                        ExpiryAfterTurn(ListsAtTurn(L, timerHeap, now),
                                        nextExpiry)
                  /\ processing' = FALSE
     ELSE UNCHANGED <<timerListQueue, timerHandle, nextExpiry, processing>>
  /\ lastCancel' = NoCancel
  /\ UNCHANGED <<resume, priorityQ, microQ, timerHeap, inflight, pollQ,
                 checkQ, ready, tick, now, log, nextSeq, errorSink, rejected, exitHops, exitBehind,
                 budget>>

\* The promise jobs between the rejection of the main module and the end of
\* the process: the runtime's module loader passes the rejection on through
\* its own promises, one job each.
LoaderHops == 3

\* Nothing catches what executing code throws.  A throw in a promise
\* reaction rejects a promise: the drain goes on, and the rejection, which
\* nothing handles, ends the process when the drain is over.  A throw in the
\* main script rejects the promise of the module: the microtask drain goes
\* on, with the jobs of the loader queued among the microtasks, and the last
\* of them ends the process.  Any other throw is an uncaught exception: the
\* process ends at once, whatever is still queued.  h is 0 for the main
\* script.
AfterFailure(h) ==
  IF h = 0 THEN "DrainingMicrotask"
  ELSE IF tasks[h].api = "then" THEN AfterReturn(tasks[h].kind)
  ELSE "Crashed"

\* The executing code throws: the main script (as fs.writeFileSync does on
\* an error) or the running callback (as the readFile callback does).
\* Nothing is written to the Error Sink.  The first job of the loader is
\* queued behind the microtasks that the main script has queued.
Fail ==
  /\ InCallback
  /\ budget.fails > 0
  /\ budget' = [budget EXCEPT !.fails = @ - 1]
  /\ tasks' = IF running = 0 THEN tasks
              ELSE [tasks EXCEPT ![running].status = "failed"]
  /\ running' = 0
  /\ currentPhase' = AfterFailure(running)
  /\ rejected' = (rejected \/ (running # 0 /\ AfterFailure(running) # "Crashed"))
  /\ IF running = 0
     THEN /\ exitHops' = LoaderHops
          /\ exitBehind' = Len(microQ)
     ELSE UNCHANGED <<exitHops, exitBehind>>
  /\ lastCancel' = NoCancel
  /\ UNCHANGED <<resume, priorityQ, microQ, timerHeap, timerListQueue,
                 timerHandle, nextExpiry, processing, inflight, pollQ, checkQ,
                 ready, tick, now, log, nextSeq, errorSink>>

\* faulty variant: tombstones are not skipped
Skipped_Never(h) == FALSE

\* A cancelled Task still queued is a tombstone: the drain logic skips it.
Skipped(h) == tasks[h].cancelled

\* Take the Task h out of its queue: invoke its payload unless cancelled.
Dispatch(h) ==
  IF Skipped(h)
  THEN UNCHANGED <<running, tasks, log>>
  ELSE /\ running' = h
       /\ tasks' = [tasks EXCEPT ![h].status = "running"]
       /\ log' = Append(log, h)

\* faulty variant: the Priority drain is capped, Tasks that Priority callbacks
\* scheduled wait for the next drain
PriorityDrained_Capped ==
  \/ priorityQ = <<>>
  \/ /\ tasks[Head(priorityQ)].by # 0
     /\ tasks[tasks[Head(priorityQ)].by].kind = "Priority"

PriorityDrained == priorityQ = <<>>

\* faulty variant: a drain that stops at the first microtask scheduled by a
\* microtask
MicrotaskDrained_Snapshot ==
  \/ microQ = <<>>
  \/ /\ tasks[Head(microQ)].by # 0
     /\ tasks[tasks[Head(microQ)].by].kind = "Microtask"

MicrotaskDrained == microQ = <<>>

\* faulty variant: queued callbacks are also run while the synchronous block
\* is still executing
DrainTurn_DuringSync(phase) ==
  /\ currentPhase \in {phase, "RunningSync"}
  /\ running = 0

\* A drain takes a step only in its own state and when no code is executing.
DrainTurn(phase) ==
  /\ currentPhase = phase
  /\ running = 0

DrainPriority ==
  /\ DrainTurn("DrainingPriority")
  /\ IF PriorityDrained
     THEN /\ currentPhase' = "DrainingMicrotask"
          /\ UNCHANGED <<running, tasks, log, priorityQ>>
     ELSE /\ priorityQ' = Tail(priorityQ)
          /\ Dispatch(Head(priorityQ))
          /\ UNCHANGED currentPhase
  /\ UNCHANGED <<resume, microQ, timerHeap, timerListQueue, timerHandle, nextExpiry, processing,
                 inflight, pollQ, checkQ, ready, tick, now, nextSeq,
                 errorSink, rejected, exitHops, exitBehind, budget, lastCancel>>

\* faulty variant: the Check phase visited before the Poll phase
NextPhase_CheckBeforePoll(p) ==
  CASE p = "TimersPhase" -> "CheckPhase"
    [] p = "CheckPhase" -> "PollPhase"
    [] OTHER -> "TimersPhase"

\* faulty variant: Poll and Check are repeated while their queue holds Tasks
NextPhase_RepeatWhileQueued(p) ==
  CASE p = "TimersPhase" -> "PollPhase"
    [] p = "PollPhase" -> IF pollQ # <<>> THEN "PollPhase" ELSE "CheckPhase"
    [] OTHER -> IF checkQ # <<>> THEN "CheckPhase" ELSE "TimersPhase"

\* faulty variant: the Check phase goes on until the Check Queue is empty
NextPhase_CheckUntilEmpty(p) ==
  CASE p = "TimersPhase" -> "PollPhase"
    [] p = "PollPhase" -> "CheckPhase"
    [] OTHER -> IF checkQ # <<>> THEN "CheckPhase" ELSE "TimersPhase"

\* faulty variant: the Timers phase is repeated while Timers are pending
NextPhase_TimersWhilePending(p) ==
  CASE p = "TimersPhase" ->
         IF timerHeap # {} THEN "TimersPhase" ELSE "PollPhase"
    [] p = "PollPhase" -> "CheckPhase"
    [] OTHER -> "TimersPhase"

\* faulty variant: after the Poll phase the loop goes back to the Timers phase
\* while Timers are pending
NextPhase_TimersAfterPoll(p) ==
  CASE p = "TimersPhase" -> "PollPhase"
    [] p = "PollPhase" -> IF timerHeap # {} THEN "TimersPhase" ELSE "CheckPhase"
    [] OTHER -> "TimersPhase"

NextPhase(p) ==
  CASE p = "TimersPhase" -> "PollPhase"
    [] p = "PollPhase" -> "CheckPhase"
    [] OTHER -> "TimersPhase"

\* faulty variant: only the Timer Heap keeps the loop open
LoopDone_TimersOnly == timerHeap = {}

\* Nothing is left that could still run: no Timer, no read in flight, no
\* queued callback that is not a tombstone.
LoopDone ==
  \A h \in timerHeap \cup inflight \cup Range(pollQ) \cup Range(checkQ) :
    ~Live(h)

\* faulty variant: a Timer that runs stays pending
HeapAfterPop_KeepsPopped(h) == timerHeap

\* The Timer that is run leaves its list.
HeapAfterPop(h) == timerHeap \ {h}

\* Only Timers are left: the loop sleeps until its timer fires.
Sleeping ==
  /\ inflight = {}
  /\ \A h \in Range(pollQ) \cup Range(checkQ) : ~Live(h)

\* The earliest time at which the Timers phase may be entered.
WakeAt ==
  IF Sleeping /\ timerHandle # 0 THEN timerHandle ELSE tick

\* The clock readings possible on entry to the Timers phase: time has
\* passed by an amount the program does not control.  A reading beyond
\* the last pending due time and the loop's timer shows nothing new.
TimesAtEntry ==
  {t \in tick..(tick + MaxDelay) :
     /\ t >= WakeAt
     /\ t > tick => \/ \E h \in timerHeap : tasks[h].deadline >= t
                    \/ timerHandle >= t}

\* The Timers phase runs its lists only when the loop's timer has fired.
Fired(t) == timerHandle # 0 /\ timerHandle <= t

\* the iterations a Task has waited for: none, one, more than one
Counted(n) == IF n < 2 THEN n + 1 ELSE 2

\* what the iteration that starts at clock reading t finds ready to run
ReadyAtStart(h, t) ==
  /\ Live(h)
  /\ CASE tasks[h].kind = "Timer" ->
             Fired(t) /\ h \in timerHeap /\ tasks[h].deadline <= t
        [] tasks[h].kind = "Poll" -> h \in Range(pollQ)
        [] tasks[h].kind = "Check" -> h \in Range(checkQ)
        [] OTHER -> FALSE

\* A new iteration starts at clock reading t: every Task that is queued has
\* waited for it, a read in flight has not.
CarriedOver(t) ==
  [h \in 1..Len(tasks) |->
     IF tasks[h].status = "pending" /\ h \notin inflight
     THEN [tasks[h] EXCEPT !.iters = Counted(@),
                           !.atStart = ReadyAtStart(h, t)]
     ELSE [tasks[h] EXCEPT !.atStart = FALSE]]

\* Phase entry.  Timers starts an iteration (or ends the loop): the clock is
\* read, and if the loop's timer has fired the lists are worked through
\* with that reading, which sets the timer again at once when no Timer is
\* due.  Poll and Check take a snapshot of their queue.
EnterPhase(p) ==
  IF p = "TimersPhase"
  THEN IF LoopDone
       THEN /\ currentPhase' = "Closed"
            /\ UNCHANGED <<resume, tick, now, ready, pollQ, checkQ, tasks,
                           timerListQueue, timerHandle, nextExpiry, processing>>
       ELSE \E t \in TimesAtEntry :
               /\ currentPhase' = p
               /\ resume' = p
               /\ tick' = t
               /\ tasks' = CarriedOver(t)
               /\ IF Fired(t)
                  THEN /\ now' = t
                       /\ IF NextIn(timerListQueue, timerHeap, t) # 0
                          THEN /\ timerHandle' = 0
                               /\ nextExpiry' = 0
                               /\ processing' = TRUE
                               /\ UNCHANGED timerListQueue
                          ELSE /\ timerListQueue' =
                                     ListsAtTurn(timerListQueue, timerHeap, t)
                               /\ timerHandle' =
                                     HandleAfterTurn(
                                       ListsAtTurn(timerListQueue, timerHeap, t),
                                       t, 0)
                               /\ nextExpiry' =
                                     ExpiryAfterTurn(
                                       ListsAtTurn(timerListQueue, timerHeap, t),
                                       0)
                               /\ UNCHANGED processing
                  ELSE UNCHANGED <<now, timerListQueue, timerHandle, nextExpiry, processing>>
               /\ UNCHANGED <<ready, pollQ, checkQ>>
  ELSE IF p = "PollPhase"
  THEN /\ currentPhase' = p
       /\ resume' = p
       /\ ready' = pollQ
       /\ pollQ' = <<>>
       /\ UNCHANGED <<tick, now, checkQ, tasks>>
  ELSE /\ currentPhase' = p
       /\ resume' = p
       /\ ready' = checkQ
       /\ checkQ' = <<>>
       /\ UNCHANGED <<tick, now, pollQ, tasks>>

\* The main script of an ES module runs while the loop is already turning,
\* past its Timers phase: the first phase after it is Check.
FirstPhase == "CheckPhase"

\* faulty variant: the Microtask drain always hands over to the macrotask phase
PriorityRefilled_Ignored == FALSE

\* Microtask callbacks have scheduled Priority Tasks: both drains start over.
PriorityRefilled == priorityQ # <<>>

\* The drains are over: an unhandled rejection ends the process, otherwise
\* the loop goes on where it was, with the Check phase after the main script.
LeaveDrain ==
  IF rejected
  THEN /\ currentPhase' = "Crashed"
       /\ UNCHANGED <<resume, pollQ, checkQ, ready, tick, now, tasks>>
  ELSE IF resume = "Start"
  THEN EnterPhase(FirstPhase)
  ELSE /\ currentPhase' = resume
       /\ UNCHANGED <<resume, pollQ, checkQ, ready, tick, now, tasks>>

\* The job of the loader is at the head of the microtask queue: the main
\* script has failed and the microtasks queued before the job have run.
LoaderTurn == exitHops > 0 /\ exitBehind = 0

\* The microtask drain takes the head of the queue.  A job of the loader
\* queues the next one behind the microtasks queued by now, and the last job
\* ends the process: the nextTick queue is not looked at before.
DrainMicrotask ==
  /\ DrainTurn("DrainingMicrotask")
  /\ IF LoaderTurn
     THEN /\ IF exitHops = 1
             THEN /\ currentPhase' = "Crashed"
                  /\ UNCHANGED <<exitHops, exitBehind>>
             ELSE /\ exitHops' = exitHops - 1
                  /\ exitBehind' = Len(microQ)
                  /\ UNCHANGED currentPhase
          /\ UNCHANGED <<running, log, microQ, resume, pollQ, checkQ, ready,
                         tick, now, tasks>>
     ELSE IF ~MicrotaskDrained
     THEN /\ microQ' = Tail(microQ)
          /\ Dispatch(Head(microQ))
          /\ exitBehind' = IF exitHops > 0 THEN exitBehind - 1 ELSE exitBehind
          /\ UNCHANGED <<currentPhase, resume, pollQ, checkQ, ready, tick, now,
                         exitHops>>
     ELSE /\ UNCHANGED <<running, log, microQ, exitHops, exitBehind>>
          /\ IF PriorityRefilled
             THEN /\ currentPhase' = "DrainingPriority"
                  /\ UNCHANGED <<resume, pollQ, checkQ, ready, tick, now,
                                 tasks>>
             ELSE LeaveDrain
  /\ UNCHANGED <<priorityQ, timerHeap, timerListQueue, timerHandle,
                 nextExpiry, processing, inflight, nextSeq, errorSink,
                 rejected, budget, lastCancel>>

\* A macrotask phase runs its next callback: the Timers phase the first
\* Timer of the list looked at first, if that Timer is due; the Poll and
\* the Check phase the head of their snapshot.
RunMacrotask ==
  /\ currentPhase \in MacroPhases
  /\ running = 0
  /\ IF currentPhase = "TimersPhase"
     THEN /\ NextTimer # 0
          /\ timerListQueue' = ListsAtTurn(timerListQueue, timerHeap, now)
          /\ timerHeap' = HeapAfterPop(NextTimer)
          /\ Dispatch(NextTimer)
          /\ UNCHANGED ready
     ELSE /\ ready # <<>>
          /\ ready' = Tail(ready)
          /\ Dispatch(Head(ready))
          /\ UNCHANGED <<timerHeap, timerListQueue>>
  /\ UNCHANGED <<currentPhase, resume, priorityQ, microQ, timerHandle, nextExpiry, processing,
                 inflight, pollQ, checkQ, tick, now, nextSeq, errorSink,
                 rejected, exitHops, exitBehind, budget, lastCancel>>

\* A macrotask phase has nothing left to run: the next phase is entered.
\* The Timers phase is left when no Timer is due by its clock reading; a
\* Timer whose due time has passed since, or whose list the loop's timer has
\* not fired for, stays pending.
AdvancePhase ==
  /\ currentPhase \in MacroPhases
  /\ running = 0
  /\ IF currentPhase = "TimersPhase" THEN NextTimer = 0 ELSE ready = <<>>
  /\ EnterPhase(NextPhase(currentPhase))
  /\ IF NextPhase(currentPhase) = "TimersPhase"
     THEN TRUE
     ELSE IF currentPhase = "TimersPhase" /\ processing
     THEN /\ timerListQueue' = ListsAtTurn(timerListQueue, timerHeap, now)
          /\ timerHandle' =
                HandleAfterTurn(ListsAtTurn(timerListQueue, timerHeap, now),
                                tick, timerHandle)
          /\ nextExpiry' =
                ExpiryAfterTurn(ListsAtTurn(timerListQueue, timerHeap, now),
                                nextExpiry)
          /\ processing' = FALSE
     ELSE UNCHANGED <<timerListQueue, timerHandle, nextExpiry, processing>>
  /\ UNCHANGED <<running, priorityQ, microQ, timerHeap, inflight, log,
                 nextSeq, errorSink, rejected, exitHops, exitBehind, budget, lastCancel>>

\* --------------------------------------------------------- specification
Init ==
  /\ currentPhase = "Idle"
  /\ resume = "Start"
  /\ running = 0
  /\ tasks = <<>>
  /\ priorityQ = <<>>
  /\ microQ = <<>>
  /\ timerHeap = {}
  /\ timerListQueue = <<>>
  /\ timerHandle = 0
  /\ nextExpiry = 0
  /\ processing = FALSE
  /\ inflight = {}
  /\ pollQ = <<>>
  /\ checkQ = <<>>
  /\ ready = <<>>
  /\ tick = 0
  /\ now = 0
  /\ log = <<>>
  /\ nextSeq = 1
  /\ errorSink = <<>>
  /\ rejected = FALSE
  /\ exitHops = 0
  /\ exitBehind = 0
  /\ budget \in Budgets
  /\ lastCancel = NoCancel

Next ==
  \/ StartRun
  \/ SchedulePriority
  \/ \E api \in MicrotaskApis : ScheduleMicrotask(api)
  \/ \E d \in Delays : ScheduleTimer(d)
  \/ ScheduleIO
  \/ \E h \in inflight : CompleteIO(h)
  \/ ScheduleCheck
  \/ \E h \in 1..(Len(tasks) + 1) : Cancel(h)
  \/ ReturnFromSync
  \/ Return
  \/ Fail
  \/ DrainPriority
  \/ DrainMicrotask
  \/ RunMacrotask
  \/ AdvancePhase

Spec == Init /\ [][Next]_vars

\* The runs in which reads are started and a Check callback can schedule
\* another Check Task.
FairInit == Init /\ budget.kinds["Poll"] > 0 /\ budget.kinds["Check"] > 1

\* The loop keeps stepping and the host completes every read.
FairSpec ==
  /\ FairInit
  /\ [][Next]_vars
  /\ WF_vars(Next)
  /\ WF_vars(\E h \in inflight : CompleteIO(h))

\* The runs in which a callback may throw.
FailingInit == Init /\ budget.fails > 0

\* The loop keeps stepping and every callback comes back, by return or by
\* throwing.
FailingSpec == FailingInit /\ [][Next]_vars /\ WF_vars(Next)

\* ------------------------------------------------------------ properties
TypeOK ==
  /\ currentPhase \in Phases
  /\ resume \in MacroPhases \cup {"Start"}
  /\ running \in 0..Len(tasks)
  /\ tick \in Nat
  /\ nextSeq = Len(tasks) + 1
  /\ errorSink = <<>>
  /\ budget.fails \in 0..MaxFailures
  /\ \A h \in inflight : tasks[h].kind = "Poll" /\ Live(h)
  /\ \A h \in timerHeap : tasks[h].kind = "Timer" /\ Live(h)
  /\ \A h \in timerHeap : HasList(timerListQueue, Clamp(tasks[h].delay))
  /\ \A i, j \in 1..Len(timerListQueue) :
       i # j => timerListQueue[i].msecs # timerListQueue[j].msecs
  /\ now <= tick
  /\ timerHandle \in Nat
  /\ nextExpiry \in Nat
  /\ processing \in BOOLEAN
  /\ processing => resume = "TimersPhase"
  /\ rejected \in BOOLEAN
  /\ exitHops \in 0..LoaderHops
  /\ exitBehind \in 0..Len(microQ)

Ids == 1..Len(tasks)

OfKind(k) == {h \in Ids : tasks[h].kind = k}

Macrotasks == {h \in Ids : tasks[h].kind \in MacroKinds}

\* scheduled by the synchronous block, or by a Priority Task while it was drained
FromSyncOrPriority(p) ==
  tasks[p].by = 0 \/ tasks[tasks[p].by].kind = "Priority"

\* C1: no Microtask executes while a Priority Task scheduled by the synchronous
\* block or by another Priority Task is still pending, and every Priority Task
\* of the synchronous block is logged before every Microtask.
PriorityBeforeMicrotask ==
  /\ \A m \in OfKind("Microtask") : tasks[m].status = "running" =>
        \A p \in OfKind("Priority") : FromSyncOrPriority(p) => ~Live(p)
  /\ \A p \in OfKind("Priority"), m \in OfKind("Microtask") :
        tasks[p].by = 0 /\ ~tasks[p].cancelled /\ InLog(m) =>
          InLog(p) /\ Pos(p) < Pos(m)

\* C2: every Microtask scheduled before a macrotask-phase Task starts, by the
\* synchronous block or by a Microtask at any chain depth, is logged before it.
MicrotaskDrainTransitive ==
  \A m \in OfKind("Microtask"), t \in Macrotasks :
    InLog(t) /\ tasks[m].bornAt < Pos(t) /\ ~tasks[m].cancelled =>
      InLog(m) /\ Pos(m) < Pos(t)

\* a Microtask scheduled by a Microtask, logged before a Timer that the
\* synchronous block scheduled first
MicrotaskDrainTransitiveWitness ==
  \E m1, m2 \in OfKind("Microtask"), t \in OfKind("Timer") :
    /\ tasks[m1].by = 0 /\ tasks[m2].by = m1
    /\ tasks[t].by = 0 /\ tasks[t].sequence < tasks[m1].sequence
    /\ InLog(m2) /\ InLog(t) /\ Pos(m2) < Pos(t)

\* C3: of two executed Timers, the one with the smaller deadline is logged first
\* whatever the order of the scheduleTimer calls.
TimersByDeadline ==
  \A a, b \in OfKind("Timer") :
    InLog(a) /\ InLog(b) /\ tasks[a].deadline < tasks[b].deadline =>
      Pos(a) < Pos(b)

\* C4: two executed Timers with equal deadlines are logged in the order of
\* their scheduleTimer calls.
EqualDeadlinesInsertionOrder ==
  \A a, b \in OfKind("Timer") :
    /\ InLog(a) /\ InLog(b)
    /\ tasks[a].deadline = tasks[b].deadline
    /\ tasks[a].sequence < tasks[b].sequence
    => Pos(a) < Pos(b)

\* C5: a Task whose cancelled flag is set never has its payload invoked and is
\* never logged, also when it was cancelled after being taken into the Poll /
\* Check snapshot of the phase in progress.
CancelledNeverRuns ==
  \A h \in Ids : tasks[h].cancelled =>
    ~InLog(h) /\ tasks[h].status = "pending" /\ running # h

\* a Task cancelled by an earlier callback of the phase whose snapshot held it
CancelledNeverRunsWitness ==
  \E h \in OfKind("Poll") \cup OfKind("Check") :
    /\ tasks[h].cancelledIn = "ready"
    /\ ~InLog(h)
    /\ currentPhase = "Closed"

\* C6: cancel on a Task still waiting in its queue, in the Timer heap or for
\* its I/O returns true and the Task is absent from the ExecutionLog; so is a
\* Timer cancelled before the clock reaches its deadline.
CancelBeforePhase ==
  /\ lastCancel.where \in {"heap", "inflight", "queue"} => lastCancel.result
  /\ \A h \in Ids :
        tasks[h].cancelledIn \in {"heap", "inflight", "queue"} => ~InLog(h)

\* Scenario C: a Timer due at 1 ms cancelled at 0 ms, and the run is over
CancelBeforePhaseWitness ==
  \E h \in OfKind("Timer") :
    /\ tasks[h].cancelled
    /\ tasks[h].cancelledIn = "heap"
    /\ tasks[h].deadline = 1 /\ tick = 0
    /\ currentPhase = "Closed"
    /\ Len(log) > 1

\* C7: cancel returns true only for a Task that had not begun executing, false
\* for an executing, executed or never issued handle, and is accepted for every
\* handle without an error state.
CancelResultSound ==
  /\ lastCancel.result => lastCancel.status = "pending"
  /\ lastCancel.status \in {"running", "done", "unknown"} => ~lastCancel.result
  /\ currentPhase \in Phases
  /\ InCallback /\ budget.cancels > 0 =>
        \A h \in 1..(Len(tasks) + 1) : ENABLED Cancel(h)

\* a cancel of a handle whose Task has already executed
CancelResultSoundWitness ==
  /\ lastCancel.status = "done"
  /\ ~lastCancel.result
  /\ InLog(lastCancel.handle)

\* C8: a second cancel of the same handle changes no queue, not the heap, tick,
\* the Tasks or the log, and a cancelled flag is never unset.
CancelIdempotent ==
  [][/\ (budget'.cancels # budget.cancels /\ lastCancel'.again =>
           UNCHANGED <<currentPhase, resume, running, tasks, priorityQ, microQ,
                       timerHeap, timerListQueue, inflight, pollQ, checkQ,
                       ready, tick, now, log, nextSeq, errorSink>>)
     /\ \A h \in Ids : tasks[h].cancelled => tasks'[h].cancelled]_vars

\* the same handle has been cancelled twice
CancelIdempotentWitness ==
  /\ lastCancel.again
  /\ lastCancel.result
  /\ tasks[lastCancel.handle].cancelled

\* Scenario A: Priority A, Microtask B, Timer C (delay 0), Timer D (delay 0),
\* all scheduled by the synchronous block in this order, none cancelled.
ScenarioA ==
  /\ Len(tasks) = 4
  /\ tasks[1].kind = "Priority" /\ tasks[2].kind = "Microtask"
  /\ tasks[3].kind = "Timer" /\ tasks[4].kind = "Timer"
  /\ \A h \in Ids : tasks[h].by = 0 /\ tasks[h].delay = 0 /\ ~tasks[h].cancelled

\* C9: Scenario A ends with the ExecutionLog [S, A, B, C, D].
ScenarioALog ==
  ScenarioA /\ currentPhase = "Closed" => log = <<0, 1, 2, 3, 4>>

\* C10: a Check Task E and a Timer F of delay 0 scheduled by the same Poll
\* callback, in either call order: E is logged before F.
ScenarioBCheckBeforeTimer ==
  \A e \in OfKind("Check"), f \in OfKind("Timer") :
    /\ tasks[e].by # 0 /\ tasks[e].by = tasks[f].by
    /\ tasks[tasks[e].by].kind = "Poll"
    /\ tasks[f].delay = 0
    /\ InLog(f) /\ ~tasks[e].cancelled
    => InLog(e) /\ Pos(e) < Pos(f)

\* the Timer was scheduled first, and both have run
ScenarioBCheckBeforeTimerWitness ==
  \E e \in OfKind("Check"), f \in OfKind("Timer") :
    /\ tasks[e].by # 0 /\ tasks[e].by = tasks[f].by
    /\ tasks[tasks[e].by].kind = "Poll"
    /\ tasks[f].delay = 0
    /\ tasks[f].sequence < tasks[e].sequence
    /\ InLog(e) /\ InLog(f)

\* C11: a payload that raises is reported to the Error Sink with its Task's id
\* and kind, and the loop does not abort: it is never left in a failure state.
FailureContained ==
  /\ \A h \in Ids : tasks[h].status = "failed" =>
        \E i \in 1..Len(errorSink) :
          errorSink[i] = [id |-> h, kind |-> tasks[h].kind]
  /\ currentPhase # "Crashed"

\* C12: no Task is ever created for a setTimeout call with a negative delay.
NegativeDelayRejected == \A h \in Ids : tasks[h].delay >= 0

KindOfPhase(p) ==
  CASE p = "TimersPhase" -> "Timer"
    [] p = "PollPhase" -> "Poll"
    [] p = "CheckPhase" -> "Check"
    [] OTHER -> "none"

SnapshotAtPhaseEntry ==
  /\ [](/\ \A q \in OfKind("Poll") \cup OfKind("Check") :
             tasks[q].inOwnPhase /\ InLog(q) => tasks[q].iters = 1
        /\ \A x, q \in OfKind("Poll"), o \in OfKind("Check") :
             /\ tasks[q].by = x /\ tasks[o].by = x
             /\ ~tasks[o].cancelled
             /\ InLog(q)
             => InLog(o) /\ Pos(o) < Pos(q))
  /\ [][resume' = resume /\ resume \in {"PollPhase", "CheckPhase"} =>
          /\ ready' = ready \/ (ready # <<>> /\ ready' = Tail(ready))
          /\ \A h \in Range(ready) : tasks[h].by # running \/ running = 0]_vars

\* a Check callback scheduled a Check Task, and a read completed while the
\* Poll phase of the next iteration was in progress: the Check Task ran in
\* the Check phase of that iteration and the read's callback in the Poll
\* phase of the iteration after it
SnapshotAtPhaseEntryWitness ==
  \E p \in OfKind("Poll"), c1, c2 \in OfKind("Check") :
    /\ tasks[p].inOwnPhase /\ tasks[p].iters = 1
    /\ tasks[c2].by = c1 /\ tasks[c2].inOwnPhase /\ tasks[c2].iters = 1
    /\ InLog(c2) /\ InLog(p)
    /\ Pos(c2) < Pos(p)

\* C15: while the synchronous block executes, no Task runs or has run and the
\* log holds only the block's entry; the block's entry is the first of the log
\* and is never written again.
SyncBlockOnlyEnqueues ==
  /\ currentPhase = "RunningSync" =>
        /\ running = 0
        /\ log = <<0>>
        /\ \A h \in Ids : tasks[h].status = "pending"
  /\ \A i \in 1..Len(log) : (log[i] = 0) = (i = 1)
  /\ \A h \in Ids : tasks[h].status # "pending" => currentPhase \notin {"Idle", "RunningSync"}

\* the synchronous block has scheduled a Task of each queue kind and still runs
SyncBlockOnlyEnqueuesWitness ==
  /\ currentPhase = "RunningSync"
  /\ priorityQ # <<>> /\ microQ # <<>> /\ timerHeap # {} /\ checkQ # <<>>

\* C16: in Closed neither the Priority Queue, the Microtask Queue, the Timer
\* Heap, the Poll Queue, the Check Queue nor a phase snapshot holds a live Task
\* and no read is in flight, no operation can take the driver out of Closed,
\* and no step does.
ClosedIsFinal ==
  /\ [](currentPhase = "Closed" =>
          /\ \A h \in Range(priorityQ) \cup Range(microQ) \cup timerHeap
                      \cup inflight \cup Range(pollQ) \cup Range(checkQ)
                      \cup Range(ready) :
                ~Live(h)
          /\ ~ENABLED (Next /\ currentPhase' # "Closed"))
  /\ [][currentPhase = "Closed" => currentPhase' = "Closed"]_vars

\* the loop closed after a second iteration ran a Timer that a Check callback
\* had scheduled
ClosedIsFinalWitness ==
  /\ currentPhase = "Closed"
  /\ \E c, t \in Ids :
       /\ tasks[c].kind = "Check" /\ tasks[t].kind = "Timer"
       /\ tasks[t].by = c
       /\ InLog(t)

\* C17: a Priority Task or Microtask scheduled by a macrotask callback is
\* logged before every macrotask that runs after that callback, in the Timers,
\* the Poll and the Check phase alike.
DrainAfterEachMacrotask ==
  \A x \in OfKind("Priority") \cup OfKind("Microtask") :
    ~tasks[x].cancelled /\ tasks[x].by \in Macrotasks =>
      \A b \in Macrotasks :
        InLog(b) /\ Pos(tasks[x].by) < Pos(b) => InLog(x) /\ Pos(x) < Pos(b)

\* two Timers ready in the same Timers phase; the first scheduled a Microtask
\* or Priority Task, which is logged between them
DrainAfterEachMacrotaskWitness ==
  \E a, x, b \in Ids :
    /\ tasks[a].kind = "Timer" /\ tasks[b].kind = "Timer"
    /\ tasks[a].by = 0 /\ tasks[b].by = 0
    /\ tasks[a].deadline = tasks[b].deadline
    /\ tasks[x].by = a
    /\ tasks[x].kind \in {"Priority", "Microtask"}
    /\ InLog(x) /\ InLog(b)
    /\ Pos(a) < Pos(x) /\ Pos(x) < Pos(b)

\* C18: a Task created later has a larger sequence than every Task created
\* before it, whatever the kinds, the caller and the cancellations in between;
\* the counter is above every sequence issued and never goes down.
SequenceStrictlyIncreases ==
  /\ [](/\ \A i, j \in Ids : i < j => tasks[i].sequence < tasks[j].sequence
        /\ \A i \in Ids : tasks[i].sequence < nextSeq)
  /\ [][/\ nextSeq' >= nextSeq
         /\ \A i \in Ids : tasks'[i].sequence = tasks[i].sequence]_vars

\* a callback has scheduled a Task of another kind and cancelled it again
SequenceStrictlyIncreasesWitness ==
  /\ running # 0
  /\ \E j \in Ids :
       /\ tasks[j].by = running
       /\ tasks[j].kind # tasks[running].kind
       /\ tasks[j].cancelled
       /\ tasks[running].sequence < tasks[j].sequence

Ascending(q) ==
  \A i, j \in 1..Len(q) : i < j => tasks[q[i]].sequence < tasks[q[j]].sequence

TickOnlyAtTimersEntry ==
  [][/\ tick' # tick =>
          /\ tick' > tick
          /\ currentPhase' = "TimersPhase"
          /\ resume' = "TimersPhase"
          /\ running = 0
          /\ timerHeap # {}
     /\ resume' # resume /\ resume' = "TimersPhase" /\ timerHeap # {} =>
          /\ \E h \in timerHeap : tasks[h].deadline = tick'
          /\ \A h \in timerHeap : tasks[h].deadline >= tick']_vars

\* scheduled by a callback of its own kind
SelfScheduled(h) ==
  /\ tasks[h].by # 0
  /\ tasks[tasks[h].by].kind = tasks[h].kind

\* C21: as long as a Priority Task scheduled by a Priority callback is live,
\* the driver is in the Priority drain, and as long as a Microtask scheduled by
\* a Microtask callback is live, it is in the Microtask or Priority drain: no
\* macrotask phase is entered and the loop is not Closed, however many Tasks
\* the drain has already run (the drain ends early only with the process, when
\* a callback throws).
DrainHasNoCap ==
  \A h \in Ids :
    Live(h) /\ SelfScheduled(h) =>
      /\ tasks[h].kind = "Priority" =>
            currentPhase \in {"DrainingPriority", "Crashed"}
      /\ tasks[h].kind = "Microtask" =>
            currentPhase \in {"DrainingPriority", "DrainingMicrotask", "Crashed"}

\* a Priority Task scheduled by a Priority callback has run in the same drain
\* while a Timer of the synchronous block is still waiting
DrainHasNoCapWitness ==
  \E t, p, q \in Ids :
    /\ tasks[t].kind = "Timer" /\ tasks[t].by = 0 /\ Live(t)
    /\ tasks[p].kind = "Priority" /\ tasks[p].by = 0
    /\ tasks[q].kind = "Priority" /\ tasks[q].by = p
    /\ tasks[q].status = "done"
    /\ currentPhase = "DrainingPriority"

\* C22: a Poll or Check Task scheduled by a callback of its own kind that was
\* enqueued while the phase of its kind was in progress runs only after a new
\* iteration has started, and after every uncancelled Poll and Check Task
\* that was queued when it was scheduled: the phase ended after its snapshot;
\* and whenever a Timer, a read's callback or a Check Task is pending, the run
\* reaches a state in which every macrotask scheduled so far, that one
\* included, has been executed or cancelled, unless the process ends on a throw.
NoPhaseStarvation ==
  /\ [](\A q \in OfKind("Poll") \cup OfKind("Check") :
          SelfScheduled(q) /\ InLog(q) =>
            /\ tasks[q].inOwnPhase => tasks[q].iters >= 1
            /\ \A o \in tasks[q].ahead :
                 ~tasks[o].cancelled => InLog(o) /\ Pos(o) < Pos(q))
  /\ (\E o \in Macrotasks : Live(o))
       ~> (currentPhase = "Crashed" \/ \A o \in Macrotasks : ~Live(o))

\* a Check callback scheduled a Check Task while a Timer was pending; the
\* Timer ran before the new Check Task, and the loop has closed
NoPhaseStarvationWitness ==
  \E x, q \in OfKind("Check"), o \in OfKind("Timer") :
    /\ tasks[q].by = x
    /\ tasks[o].bornAt < Pos(x)
    /\ InLog(o) /\ InLog(q)
    /\ Pos(x) < Pos(o) /\ Pos(o) < Pos(q)
    /\ currentPhase = "Closed"

\* C23: whenever a macrotask phase is about to run a callback, the Priority
\* Queue and the Microtask Queue are empty; while a macrotask callback executes
\* they hold only Tasks it has scheduled itself; and a Priority Task scheduled
\* by a Microtask is logged before every macrotask that is logged after that
\* Microtask.
QueuesEmptyAtMacrotask ==
  /\ currentPhase \in MacroPhases /\ running = 0 =>
        priorityQ = <<>> /\ microQ = <<>>
  /\ currentPhase \in MacroPhases /\ running # 0 =>
        \A h \in Range(priorityQ) \cup Range(microQ) : tasks[h].by = running
  /\ \A p \in OfKind("Priority") :
       ~tasks[p].cancelled /\ tasks[p].by \in OfKind("Microtask") =>
         \A b \in Macrotasks :
           InLog(b) /\ Pos(tasks[p].by) < Pos(b) => InLog(p) /\ Pos(p) < Pos(b)

\* a Microtask scheduled a Priority Task, which ran before the Timer that the
\* synchronous block had scheduled
QueuesEmptyAtMacrotaskWitness ==
  \E p, m, b \in Ids :
    /\ tasks[m].kind = "Microtask"
    /\ tasks[p].kind = "Priority" /\ tasks[p].by = m
    /\ tasks[b].kind = "Timer" /\ tasks[b].by = 0
    /\ b < p
    /\ tasks[b].status = "running"
    /\ InLog(p)

\* C24: the log never holds an identifier twice, and besides the synchronous
\* block's entry only identifiers that a scheduling call issued; at Closed
\* every Task that was not cancelled is in the log and done.
ExactlyOnceAtClosed ==
  /\ \A i, j \in 1..Len(log) : i < j => log[i] # log[j]
  /\ \A i \in 1..Len(log) : log[i] \in Ids \cup {0}
  /\ currentPhase = "Closed" =>
        \A h \in Ids :
          ~tasks[h].cancelled => InLog(h) /\ tasks[h].status = "done"

\* the loop closed with a Timer executed and the Task its callback had
\* scheduled cancelled
ExactlyOnceAtClosedWitness ==
  /\ currentPhase = "Closed"
  /\ \E h, t \in Ids :
       /\ tasks[t].kind = "Timer" /\ InLog(t)
       /\ tasks[h].by = t
       /\ tasks[h].cancelled /\ ~InLog(h)

\* C25: a Timer that has been invoked was invoked in a Timers phase whose
\* clock reading was at least the clock reading of its scheduling call plus
\* its delay, and no Timer has a due time below that sum.
TimerNeverEarly ==
  \A h \in Ids :
    tasks[h].kind = "Timer" =>
      /\ tasks[h].deadline >= tasks[h].schedTick + tasks[h].delay
      /\ InLog(h) => now >= tasks[h].schedTick + tasks[h].delay

\* a Timer callback that ran after the clock had advanced scheduled a Timer
\* with a positive delay, which is now running
TimerNeverEarlyWitness ==
  \E a, b \in Ids :
    /\ tasks[a].kind = "Timer" /\ tasks[b].kind = "Timer"
    /\ tasks[b].by = a
    /\ tasks[b].schedTick > 0 /\ tasks[b].delay > 0
    /\ tasks[b].status = "running"

\* C26: a Timer scheduled by the callback that is running in a Timers phase
\* is not due in that phase, and a Timer scheduled by a Timer callback runs
\* in a later iteration, after every uncancelled Poll and Check Task that
\* was queued when it was scheduled.
TimersFixedAtPop ==
  /\ resume = "TimersPhase" /\ running # 0 =>
       \A b \in timerHeap : tasks[b].by = running => tasks[b].deadline > now
  /\ \A b \in OfKind("Timer") :
       tasks[b].by \in OfKind("Timer") /\ InLog(b) =>
         /\ tasks[b].iters >= 1
         /\ \A o \in tasks[b].ahead :
              ~tasks[o].cancelled => InLog(o) /\ Pos(o) < Pos(b)

\* a Timer callback scheduled a Timer with delay 0 while the callback of a
\* completed read was queued; the read's callback ran between the two Timers
TimersFixedAtPopWitness ==
  \E a, b \in OfKind("Timer"), o \in OfKind("Poll") :
    /\ tasks[a].by = 0
    /\ tasks[b].by = a /\ tasks[b].delay = 0
    /\ o \in tasks[b].ahead
    /\ InLog(b)
    /\ Pos(a) < Pos(o) /\ Pos(o) < Pos(b)

\* the Tasks whose payload raised
Failed == {h \in Ids : tasks[h].status = "failed"}

\* C27: as long as a Priority Task or Microtask scheduled by a macrotask
\* callback that raised is live, the driver is in the Priority or Microtask
\* drain, and such a Task is logged before every macrotask logged after the
\* failed callback.
DrainAfterFailure ==
  \A a \in Failed, x \in Ids :
    /\ tasks[a].kind \in MacroKinds
    /\ tasks[x].by = a
    /\ tasks[x].kind \in {"Priority", "Microtask"}
    /\ ~tasks[x].cancelled
    => /\ Live(x) => currentPhase \in {"DrainingPriority", "DrainingMicrotask"}
       /\ \A b \in Ids :
            tasks[b].kind \in MacroKinds /\ InLog(b) /\ Pos(a) < Pos(b) =>
              InLog(x) /\ Pos(x) < Pos(b)

\* no code is executing and no queue, heap or snapshot holds a live Task
NothingLive ==
  /\ running = 0
  /\ currentPhase \notin {"Idle", "RunningSync", "Crashed"}
  /\ \A h \in Range(priorityQ) \cup Range(microQ) \cup timerHeap \cup inflight
              \cup Range(pollQ) \cup Range(checkQ) \cup Range(ready) :
        ~Live(h)

\* a cancelled Task is still in a queue or a snapshot
Tombstones ==
  \E h \in Range(priorityQ) \cup Range(microQ) \cup Range(pollQ)
            \cup Range(checkQ) \cup Range(ready) : tasks[h].cancelled

\* C28: once only cancelled Tasks remain, no step writes to the log, starts a
\* new iteration, makes a Task live again or ends the run in another state
\* than Closed, and the driver reaches Closed.
TombstonesDoNotKeepAlive ==
  /\ [][NothingLive /\ Tombstones =>
          /\ log' = log
          /\ running' = 0
          /\ resume' # resume => resume' # "TimersPhase"
          /\ NothingLive']_vars
  /\ (NothingLive /\ Tombstones) ~> (currentPhase = "Closed")

====
